---------------------------- MODULE Spec2Model ----------------------------
(***************************************************************************)
(* A model of GardenContext (src/src/context.ts): the plugin registry, the *)
(* action-handler resolution, the active environment, and the discovery of *)
(* modules and services with its cache.                                    *)
(*                                                                         *)
(* Strings that the code only compares are TLA+ strings.  Strings that the *)
(* code takes apart (the environment selector) are sequences of one-       *)
(* character strings.  The empty string "" / the empty sequence << >>      *)
(* stands for a falsy string argument or field (undefined or "").          *)
(***************************************************************************)
EXTENDS Naturals, Sequences, FiniteSets, TLC

VARIABLES
    config,          \* this.config: the loaded project configuration
    plugins,         \* this.plugins: the plugins, in key (registration) order
    actionHandlers,  \* this.actionHandlers: action -> (plugin name -> handler)
    environment,     \* this.environment (<< >> while unset)
    namespace,       \* this.namespace   (<< >> while unset)
    modules,         \* this.modules: the cached module index
    services,        \* this.services: the cached service index
    fs,              \* the project tree the directory scanner walks
    calls,           \* the getModules / getServices calls issued so far
    scanCount,       \* how many directory scans have been started
    result,          \* outcome of the latest synchronous public call
    lastSet          \* what the latest setEnvironment that succeeded returned

vars == <<config, plugins, actionHandlers, environment, namespace,
          modules, services, fs, calls, scanCount, result, lastSet>>

-----------------------------------------------------------------------------
(* Bounds of the model *)

\* external plugins that may be registered after construction
MaxExternalPlugins == 2
\* longest environment selector, in characters
MaxSelectorLen == 3
\* entries of the project tree
MaxEntries == 2
\* getModules / getServices calls issued on the context
MaxCalls == 2

-----------------------------------------------------------------------------
(* Plugins and the registry *)

\* the keys of this.actionHandlers
PluginActionNames == {"parseModule", "getModuleBuildStatus", "buildModule"}

\* a plugin object: its name, supportedModuleTypes and the actions it defines
Plugin(name, types, actions) ==
    [name |-> name, supportedModuleTypes |-> types, actions |-> actions]

\* the built-in plugin classes, in the order of the builtinPlugins array
BuiltinPlugins ==
    << Plugin("generic", {"generic"}, PluginActionNames),
       Plugin("container", {"container"}, PluginActionNames),
       Plugin("generic-function", {"function"}, PluginActionNames),
       Plugin("npm-package", {"npm-package"}, PluginActionNames) >>

BuiltinNames == {BuiltinPlugins[i].name : i \in 1..Len(BuiltinPlugins)}

\* the plugins a caller may hand to registerPlugin: new ones, one named as
\* a built-in plugin, one whose name is no identifier
ExternalPlugins ==
    { Plugin(n, t, a) :
        n \in {"ext-a", "ext-b"},
        t \in {{"container"}, {"custom"}},
        a \in {{}, {"parseModule"}, {"parseModule", "buildModule"}} }
    \cup
    { Plugin("container", {"custom"}, {"parseModule"}),
      Plugin("Not An Id", {"custom"}, {"parseModule"}) }

\* JoiIdentifier(): the names the identifier grammar accepts
ValidIdentifier(name) == name # "Not An Id"

\* faulty variants: no plugin / every plugin defines the action
ImplementsNever(plugin, type) == FALSE
ImplementsAlways(plugin, type) == TRUE
\* plugin[type]: the plugin defines a handler for the action
Implements(plugin, type) == type \in plugin.actions

\* faulty variant: the check for a declared name is left out
PluginDeclaredNever(ps, name) == FALSE
\* this.plugins[pluginName] is set
PluginDeclared(ps, name) == \E i \in 1..Len(ps) : ps[i].name = name

\* this.plugins[pluginName] = plugin: a new key goes last, a key that
\* exists keeps its place
PutPlugin(ps, plugin) ==
    IF \E i \in 1..Len(ps) : ps[i].name = plugin.name
    THEN [i \in 1..Len(ps) |->
            IF ps[i].name = plugin.name THEN plugin ELSE ps[i]]
    ELSE Append(ps, plugin)

\* the handler stored for a plugin's action: a closure bound to the plugin
Handler(plugin, type) == [plugin |-> plugin.name, action |-> type]
UndefinedHandler == [plugin |-> "", action |-> ""]

\* faulty variant: no handler is stored
BindHandlersNone(ah, plugin) == ah
\* the loop over pluginActionNames in registerPlugin
BindHandlers(ah, plugin) ==
    [type \in PluginActionNames |->
        IF Implements(plugin, type)
        THEN [n \in (DOMAIN ah[type]) \cup {plugin.name} |->
                IF n = plugin.name THEN Handler(plugin, type) ELSE ah[type][n]]
        ELSE ah[type]]

\* registerPlugin on registry (ps, ah): the error thrown ("" for none) and
\* the registry afterwards
RegisterOutcome(ps, ah, plugin) ==
    IF ~ValidIdentifier(plugin.name)
    THEN [err |-> "ValidationError", plugins |-> ps, actionHandlers |-> ah]
    ELSE IF PluginDeclared(ps, plugin.name)
    THEN [err |-> "PluginError", plugins |-> ps, actionHandlers |-> ah]
    ELSE [err |-> "",
          plugins |-> PutPlugin(ps, plugin),
          actionHandlers |-> BindHandlers(ah, plugin)]

\* faulty variant: the built-in plugins are loaded last one first
RECURSIVE LoadBuiltinsReversed(_, _)
LoadBuiltinsReversed(reg, i) ==
    IF i > Len(BuiltinPlugins) THEN reg
    ELSE LoadBuiltinsReversed(
            RegisterOutcome(reg.plugins, reg.actionHandlers,
                            BuiltinPlugins[Len(BuiltinPlugins) + 1 - i]),
            i + 1)
\* the constructor: empty registry, then the built-in plugins in order
RECURSIVE LoadBuiltins(_, _)
LoadBuiltins(reg, i) ==
    IF i > Len(BuiltinPlugins) THEN reg
    ELSE LoadBuiltins(
            RegisterOutcome(reg.plugins, reg.actionHandlers, BuiltinPlugins[i]),
            i + 1)

EmptyRegistry ==
    [err |-> "", plugins |-> << >>,
     actionHandlers |-> [type \in PluginActionNames |-> << >>]]

Constructed == LoadBuiltins(EmptyRegistry, 1)

-----------------------------------------------------------------------------
(* The project configuration and the environment *)

Alphabet == {"p", "t", "."}

DEFAULT_NAMESPACE == <<"default">>

\* the project configurations loadProjectConfig may return: for each
\* environment name, the provider slots with their types
ProjectConfigs ==
    { [environments |->
        (<<"p">> :> [providers |-> [docker |-> [type |-> "container"],
                                     fn |-> [type |-> "ext-a"]]]) @@
        (<<"t", "p">> :> [providers |-> [fn |-> [type |-> "ext-b"]]])],
      [environments |->
        (<<"p">> :> [providers |-> [fn |-> [type |-> "ext-b"],
                                     gen |-> [type |-> "generic"]]]) @@
        (<<"t">> :> [providers |-> [fn |-> [type |-> "ext-a"]]])] }

\* environment.split(".")
RECURSIVE Split(_)
Split(s) ==
    IF \A i \in 1..Len(s) : s[i] # "."
    THEN <<s>>
    ELSE LET k == CHOOSE i \in 1..Len(s) :
                    s[i] = "." /\ \A j \in 1..(i - 1) : s[j] # "."
         IN  <<SubSeq(s, 1, k - 1)>> \o Split(SubSeq(s, k + 1, Len(s)))

\* parts.join(".")
RECURSIVE Join(_)
Join(parts) ==
    IF Len(parts) = 0 THEN << >>
    ELSE IF Len(parts) = 1 THEN parts[1]
    ELSE parts[1] \o <<".">> \o Join(Tail(parts))

\* faulty variant: the selector is not split
SelectorNameWhole(sel) == sel
SelectorName(sel) == Split(sel)[1]

\* faulty variant: no default for an empty namespace
SelectorNamespaceRaw(sel) == Join(Tail(Split(sel)))
\* parts.slice(1).join(".")
SelectorNamespace(sel) ==
    IF Join(Tail(Split(sel))) = << >>
    THEN DEFAULT_NAMESPACE
    ELSE Join(Tail(Split(sel)))

\* faulty variant: every name passes
EnvironmentConfiguredAny(cfg, name) == TRUE
\* this.config.environments[name] is set
EnvironmentConfigured(cfg, name) == name \in DOMAIN cfg.environments

\* this.config.environments[name]; a key that is missing reads as a block
\* without providers
EnvironmentBlock(cfg, name) ==
    IF name \in DOMAIN cfg.environments
    THEN cfg.environments[name]
    ELSE [providers |-> << >>]

\* faulty variant: the check is left out
EnvironmentUnsetNever(env) == FALSE
\* !this.environment
EnvironmentUnset(env) == env = << >>

\* getEnvironment(): the error thrown ("" for none) and the value returned
GetEnvironmentOutcome ==
    IF EnvironmentUnset(environment)
    THEN [err |-> "PluginError", val |-> << >>]
    ELSE [err |-> "",
          val |-> [name |-> environment,
                   namespace |-> namespace,
                   config |-> EnvironmentBlock(config, environment)]]

-----------------------------------------------------------------------------
(* Resolution of action handlers *)

\* faulty variant: the module type is ignored
GetAllPluginsUnfiltered(moduleType) == plugins
\* faulty variant: with an environment set, only its plugins are listed
GetAllPluginsOfEnvironment(moduleType) ==
    SelectSeq(plugins, LAMBDA p :
        /\ moduleType = "" \/ moduleType \in p.supportedModuleTypes
        /\ \/ EnvironmentUnset(environment)
           \/ \E slot \in DOMAIN EnvironmentBlock(config, environment).providers :
                 EnvironmentBlock(config, environment).providers[slot].type
                     = p.name)
\* getAllPlugins(moduleType): moduleType "" is the falsy argument
GetAllPlugins(moduleType) ==
    IF moduleType # ""
    THEN SelectSeq(plugins, LAMBDA p : moduleType \in p.supportedModuleTypes)
    ELSE plugins

\* values(env.config.providers).map(p => p.type)
EnvProviderTypes(env) ==
    {env.config.providers[s].type : s \in DOMAIN env.config.providers}

\* faulty variant: the provider types are ignored
GetEnvPluginsUnfiltered(moduleType) == GetAllPlugins(moduleType)
\* getEnvPlugins(moduleType), called with an environment set
GetEnvPlugins(moduleType) ==
    LET env == GetEnvironmentOutcome.val
    IN  SelectSeq(GetAllPlugins(moduleType),
                  LAMBDA p : p.name \in EnvProviderTypes(env))

\* this.actionHandlers[type][plugin.name]
HandlerLookup(type, name) ==
    IF name \in DOMAIN actionHandlers[type]
    THEN actionHandlers[type][name]
    ELSE UndefinedHandler

\* faulty variant: the last plugin that defines the action wins
RECURSIVE LastHandler(_, _)
LastHandler(ps, type) ==
    IF ps = << >> THEN UndefinedHandler
    ELSE IF Implements(ps[Len(ps)], type)
    THEN HandlerLookup(type, ps[Len(ps)].name)
    ELSE LastHandler(SubSeq(ps, 1, Len(ps) - 1), type)
\* the loop "for (const plugin of plugins)": the handler of the first plugin
\* that defines the action, or UndefinedHandler when the loop runs out
RECURSIVE FirstHandler(_, _)
FirstHandler(ps, type) ==
    IF ps = << >> THEN UndefinedHandler
    ELSE IF Implements(Head(ps), type)
    THEN HandlerLookup(type, Head(ps).name)
    ELSE FirstHandler(Tail(ps), type)

\* the loop returned (some plugin of the list defines the action)
LoopReturns(ps, type) == \E i \in 1..Len(ps) : Implements(ps[i], type)

\* getActionHandler(type, moduleType)
GetActionHandlerOutcome(type, moduleType) ==
    LET ps == GetAllPlugins(moduleType)
    IN  IF LoopReturns(ps, type)
        THEN [err |-> "", val |-> FirstHandler(ps, type),
              detail |-> << >>]
        ELSE [err |-> "ParameterError", val |-> UndefinedHandler,
              detail |-> [requestedHandlerType |-> type,
                          requestedModuleType |-> moduleType]]

\* getEnvActionHandler(type, moduleType)
GetEnvActionHandlerOutcome(type, moduleType) ==
    IF GetEnvironmentOutcome.err # ""
    THEN [err |-> GetEnvironmentOutcome.err, val |-> UndefinedHandler,
          detail |-> << >>]
    ELSE LET ps == GetEnvPlugins(moduleType)
         IN  IF LoopReturns(ps, type)
             THEN [err |-> "", val |-> FirstHandler(ps, type),
                   detail |-> << >>]
             ELSE [err |-> "ParameterError", val |-> UndefinedHandler,
                   detail |-> [requestedHandlerType |-> type,
                               requestedModuleType |-> moduleType,
                               environment |-> GetEnvironmentOutcome.val.name]]

-----------------------------------------------------------------------------
(* The synchronous public calls.  Each records its outcome in result. *)

Outcome(op, arg, err, val, detail) ==
    [op |-> op, arg |-> arg, err |-> err, val |-> val, detail |-> detail]

NoResult == Outcome("", << >>, "", << >>, << >>)

\* the plugin registered under a name (this.plugins[name])
PluginNamed(ps, name) ==
    IF PluginDeclared(ps, name)
    THEN ps[CHOOSE i \in 1..Len(ps) : ps[i].name = name]
    ELSE Plugin("", {}, {})

\* registerPlugin(pluginFactory), the factory returning plugin
RegisterPlugin(plugin) ==
    LET out == RegisterOutcome(plugins, actionHandlers, plugin)
    IN  /\ out.err = "" =>
              Len(plugins) < Len(BuiltinPlugins) + MaxExternalPlugins
        /\ plugins' = out.plugins
        /\ actionHandlers' = out.actionHandlers
        /\ result' = Outcome("registerPlugin", plugin, out.err, << >>,
                 IF out.err = "PluginError"
                 THEN [previous |-> PluginNamed(plugins, plugin.name),
                       adding |-> plugin]
                 ELSE << >>)
        /\ UNCHANGED <<config, environment, namespace, modules, services,
                       fs, calls, scanCount, lastSet>>

\* setEnvironment(environment)
SetEnvironment(sel) ==
    LET name == SelectorName(sel)
        ns == SelectorNamespace(sel)
    IN  /\ IF ~EnvironmentConfigured(config, name)
           THEN /\ result' = Outcome("setEnvironment", sel, "ParameterError",
                                     << >>, [name |-> name, namespace |-> ns])
                /\ UNCHANGED <<environment, namespace, lastSet>>
           ELSE /\ environment' = name
                /\ namespace' = ns
                /\ result' = Outcome("setEnvironment", sel, "",
                                     [name |-> name, namespace |-> ns], << >>)
                /\ lastSet' = <<result'.val>>
        /\ UNCHANGED <<config, plugins, actionHandlers, modules, services,
                       fs, calls, scanCount>>

\* getEnvironment()
GetEnvironment ==
    /\ result' = Outcome("getEnvironment", << >>, GetEnvironmentOutcome.err,
                         GetEnvironmentOutcome.val, << >>)
    /\ UNCHANGED <<config, plugins, actionHandlers, environment, namespace,
                   modules, services, fs, calls, scanCount, lastSet>>

\* getActionHandler(type, moduleType)
GetActionHandler(type, moduleType) ==
    LET out == GetActionHandlerOutcome(type, moduleType)
    IN  /\ result' = Outcome("getActionHandler", <<type, moduleType>>,
                             out.err, out.val, out.detail)
        /\ UNCHANGED <<config, plugins, actionHandlers, environment,
                       namespace, modules, services, fs, calls, scanCount, lastSet>>

\* getEnvActionHandler(type, moduleType)
GetEnvActionHandler(type, moduleType) ==
    LET out == GetEnvActionHandlerOutcome(type, moduleType)
    IN  /\ result' = Outcome("getEnvActionHandler", <<type, moduleType>>,
                             out.err, out.val, out.detail)
        /\ UNCHANGED <<config, plugins, actionHandlers, environment,
                       namespace, modules, services, fs, calls, scanCount, lastSet>>

-----------------------------------------------------------------------------
(* Paths *)

\* a path: absolute or not, and its components
Path(abs, parts) == [abs |-> abs, parts |-> parts]

\* this.projectRoot
ProjectRoot == Path(TRUE, <<"proj">>)

MODULE_CONFIG_FILENAME == "garden.yml"

\* path.parse(p): the directory and the base name
ParsePath(p) ==
    [dir |-> Path(p.abs, SubSeq(p.parts, 1, Len(p.parts) - 1)),
     base |-> p.parts[Len(p.parts)]]

\* the length of the longest common prefix of two component lists
RECURSIVE CommonPrefix(_, _)
CommonPrefix(a, b) ==
    IF a = << >> \/ b = << >> \/ Head(a) # Head(b) THEN 0
    ELSE 1 + CommonPrefix(Tail(a), Tail(b))

\* faulty variant: the path is left as it is
RelativeIdentity(from, to) == to
\* path.relative(from, to), both absolute
Relative(from, to) ==
    LET k == CommonPrefix(from.parts, to.parts)
    IN  Path(FALSE,
             [i \in 1..(Len(from.parts) - k) |-> ".."] \o
                 SubSeq(to.parts, k + 1, Len(to.parts)))

-----------------------------------------------------------------------------
(* The project tree *)

\* a module declaration: its name, its type, its services in key order
Declaration(name, type, svcs) ==
    [name |-> name, type |-> type, services |-> svcs]

ServiceDecl(name, image) == [name |-> name, config |-> [image |-> image]]

NoDeclaration == Declaration("", "", << >>)

\* the declarations a garden.yml of the tree may hold
Declarations ==
    { Declaration("web", "container", <<ServiceDecl("api", "web-api")>>),
      Declaration("db", "container",
                  <<ServiceDecl("cache", "db-cache"),
                    ServiceDecl("api", "db-api")>>),
      Declaration("jobs", "custom", <<ServiceDecl("worker", "jobs-worker")>>) }

DirNames == <<"a", "b", "c", "d">>

\* a file of the tree: its absolute path and, for a garden.yml, what it holds
Entry(parts, decl) == [path |-> Path(TRUE, parts), decl |-> decl]

\* the files that may sit at place i of the walk
EntriesAt(i) ==
    { Entry(<<"proj", DirNames[i], MODULE_CONFIG_FILENAME>>, d) :
        d \in Declarations }
    \cup
    { Entry(<<"proj", DirNames[i], "README.md">>, NoDeclaration),
      Entry(<<"proj", "node_modules", DirNames[i], MODULE_CONFIG_FILENAME>>,
            Declaration("web", "container", << >>)) }

\* the project trees, as the walk order of their files
ProjectTrees ==
    UNION { { t \in [1..n -> UNION {EntriesAt(i) : i \in 1..n}] :
                \A i \in 1..n : t[i] \in EntriesAt(i) } : n \in 0..MaxEntries }

\* getIgnorer(projectRoot).ignores(relPath)
Ignores(relPath) == relPath.parts[1] = "node_modules"

\* faulty variant: nothing is ignored
ScanFilterAll(path) == TRUE
\* the filter handed to scanDirectory
ScanFilter(path) == ~Ignores(Relative(ProjectRoot, path))

\* scanDirectory(projectRoot, scanOpts): the items it yields, in order
ScanItems == SelectSeq(fs, LAMBDA e : ScanFilter(e.path))

\* loadModuleConfig(modulePath): the declaration in that directory, with
\* the path it was loaded from
LoadModuleConfig(modulePath) ==
    LET e == CHOOSE e \in {fs[i] : i \in 1..Len(fs)} :
                /\ ParsePath(e.path).dir = modulePath
                /\ ParsePath(e.path).base = MODULE_CONFIG_FILENAME
    IN  [name |-> e.decl.name, type |-> e.decl.type,
         services |-> e.decl.services, path |-> modulePath]

\* parseHandler(this, config): the Module a plugin's parseModule builds
ParseModule(handler, cfg) ==
    [name |-> cfg.name, type |-> cfg.type, path |-> cfg.path,
     parsedBy |-> handler.plugin]

-----------------------------------------------------------------------------
(* Discovery: one pass of the loop of getModules *)

\* an index object: which pass built it, and its entries.  Undefined is the
\* value of this.modules and this.services before any pass has committed.
Undefined == [kind |-> "undefined", pass |-> 0, map |-> << >>]
Index(pass, map) == [kind |-> "index", pass |-> pass, map |-> map]

\* faulty variant: every call scans
CacheUnsetAlways(m) == TRUE
\* !this.modules
CacheUnset(m) == m.kind = "undefined"

\* obj[key] = value
Put(map, key, value) ==
    [k \in (DOMAIN map) \cup {key} |-> IF k = key THEN value ELSE map[k]]

\* faulty variant: the check for a duplicate is left out
ModuleIndexedNever(mods, name) == FALSE
\* modules[config.name] is set
ModuleIndexed(mods, name) == name \in DOMAIN mods

\* faulty variant: the check for a duplicate is left out
ServiceIndexedNever(svcs, name) == FALSE
\* services[serviceName] is set
ServiceIndexed(svcs, name) == name \in DOMAIN svcs

Step(err, detail, mods, svcs) ==
    [err |-> err, detail |-> detail, modules |-> mods, services |-> svcs]

\* the loop over config.services: add the services from place i on
RECURSIVE AddServices(_, _, _, _, _)
AddServices(mods, svcs, module, cfg, i) ==
    IF i > Len(cfg.services) THEN Step("", << >>, mods, svcs)
    ELSE LET s == cfg.services[i]
         IN  IF ServiceIndexed(svcs, s.name)
             THEN Step("ConfigurationError",
                       [serviceName |-> s.name,
                        moduleA |-> svcs[s.name].module.name,
                        moduleB |-> cfg.name],
                       mods, svcs)
             ELSE AddServices(mods,
                     Put(svcs, s.name, [module |-> module, config |-> s.config]),
                     module, cfg, i + 1)

\* the body of the loop for a garden.yml item whose declaration loaded
IndexModule(mods, svcs, item, cfg) ==
    IF ModuleIndexed(mods, cfg.name)
    THEN Step("ConfigurationError",
              [pathA |-> mods[cfg.name].path,
               pathB |-> Relative(ProjectRoot, item.path)],
              mods, svcs)
    ELSE LET parseHandler == GetActionHandlerOutcome("parseModule", cfg.type)
         IN  IF parseHandler.err # ""
             THEN Step(parseHandler.err, parseHandler.detail, mods, svcs)
             ELSE LET module == ParseModule(parseHandler.val, cfg)
                  IN  AddServices(Put(mods, cfg.name, module), svcs,
                                  module, cfg, 1)

-----------------------------------------------------------------------------
(* getModules and getServices.  Both are async: a call is suspended at     *)
(* every await of the scan, and other calls run in between.                *)

\* the names argument: not given, or a list of keys
NoNames == [given |-> FALSE, keys |-> {}]
Names(keys) == [given |-> TRUE, keys |-> keys]
NameArgs == {NoNames, Names({"web", "api", "nope"})}

\* pick(object, names): a new object with the keys of names the object has
Pick(obj, keys) ==
    [kind |-> "picked", pass |-> 0,
     map |-> [k \in (DOMAIN obj.map) \cap keys |-> obj.map[k]]]

\* faulty variant: the names are ignored
ReturnedWhole(cached, names) == cached
\* names === undefined ? cached : pick(cached, names)
Returned(cached, names) ==
    IF ~names.given THEN cached ELSE Pick(cached, names.keys)

\* a call that has just been issued and starts a scan
NewCall(op) ==
    [op |-> op, pc |-> "scan", pos |-> 0,
     modules |-> << >>, services |-> << >>,
     scanned |-> TRUE,
     after |-> {i \in 1..Len(calls) : calls[i].pc = "done"},
     err |-> "", detail |-> << >>, names |-> NoNames, ret |-> Undefined]

\* faulty variant: the pass builds its indexes in the cache
CacheDuringPassEager(cache, c, local) == Index(c, local)
\* the locals of a pass are not visible in the cache while the pass runs
CacheDuringPass(cache, c, local) == cache

\* getModules(names) or getServices(names) is called.  With the cache unset
\* the call starts a scan and is suspended at the first await of the loop.
Call(op) ==
    /\ Len(calls) < MaxCalls
    /\ IF CacheUnset(modules)
       THEN /\ calls' = Append(calls, NewCall(op))
            /\ scanCount' = scanCount + 1
       ELSE /\ scanCount' = scanCount
            /\ IF op = "getModules"
               THEN \E names \in NameArgs :
                      calls' = Append(calls,
                          [NewCall(op) EXCEPT !.pc = "done",
                                              !.scanned = FALSE,
                                              !.names = names,
                                              !.ret = Returned(modules, names)])
               ELSE calls' = Append(calls,
                          [NewCall(op) EXCEPT !.pc = "resume",
                                              !.scanned = FALSE])
    /\ UNCHANGED <<config, plugins, actionHandlers, environment, namespace,
                   modules, services, fs, result, lastSet>>

\* the pass of call c throws
Fail(c, err, detail) ==
    calls' = [calls EXCEPT ![c].pc = "failed", ![c].err = err,
                           ![c].detail = detail]

\* one turn of the loop of call c: the scanner yields the next item; for a
\* garden.yml the declaration is loaded (which may fail) and indexed
ScanStep(c) ==
    /\ calls[c].pc = "scan"
    /\ calls[c].pos < Len(ScanItems)
    /\ LET item == ScanItems[calls[c].pos + 1]
           parsedPath == ParsePath(item.path)
       IN  IF parsedPath.base # MODULE_CONFIG_FILENAME
           THEN /\ calls' = [calls EXCEPT ![c].pos = @ + 1]
                /\ UNCHANGED <<modules, services>>
           ELSE \/ /\ Fail(c, "ConfigurationError",
                           [loading |-> parsedPath.dir])
                   /\ UNCHANGED <<modules, services>>
                \/ LET out == IndexModule(calls[c].modules, calls[c].services,
                                  item, LoadModuleConfig(parsedPath.dir))
                   IN  IF out.err # ""
                       THEN /\ Fail(c, out.err, out.detail)
                            /\ UNCHANGED <<modules, services>>
                       ELSE /\ calls' = [calls EXCEPT
                                            ![c].pos = @ + 1,
                                            ![c].modules = out.modules,
                                            ![c].services = out.services]
                            /\ modules' =
                                 CacheDuringPass(modules, c, out.modules)
                            /\ services' =
                                 CacheDuringPass(services, c, out.services)
    /\ UNCHANGED <<config, plugins, actionHandlers, environment, namespace,
                   fs, scanCount, result, lastSet>>

\* faulty variant: this.services is not assigned
StoredModulesOnly(c) ==
    [modules |-> Index(c, calls[c].modules), services |-> services]
\* this.modules = modules; this.services = services: what pass c stores
Stored(c) ==
    [modules |-> Index(c, calls[c].modules),
     services |-> Index(c, calls[c].services)]

\* the scanner is exhausted: call c stores its indexes in the cache; a
\* getModules call returns, a getServices call goes on after its await
Commit(c) ==
    /\ calls[c].pc = "scan"
    /\ calls[c].pos = Len(ScanItems)
    /\ modules' = Stored(c).modules
    /\ services' = Stored(c).services
    /\ IF calls[c].op = "getModules"
       THEN \E names \in NameArgs :
              calls' = [calls EXCEPT ![c].pc = "done", ![c].names = names,
                                     ![c].ret = Returned(modules', names)]
       ELSE calls' = [calls EXCEPT ![c].pc = "resume"]
    /\ UNCHANGED <<config, plugins, actionHandlers, environment, namespace,
                   fs, scanCount, result, lastSet>>

\* getServices goes on after "await this.getModules()" and returns
ServicesReturn(c) ==
    /\ calls[c].pc = "resume"
    /\ \E names \in NameArgs :
         calls' = [calls EXCEPT ![c].pc = "done", ![c].names = names,
                                ![c].ret = Returned(services, names)]
    /\ UNCHANGED <<config, plugins, actionHandlers, environment, namespace,
                   modules, services, fs, scanCount, result, lastSet>>

-----------------------------------------------------------------------------
(* Specifications.  Each one runs the context from its constructor and    *)
(* exercises one part of it with inputs from bounded sets: the registry    *)
(* and the resolution of handlers, the active environment, discovery.      *)

\* all environment selectors of at most n characters
Selectors(n) == UNION {[1..k -> Alphabet] : k \in 0..n}

ModuleTypes == {"", "container", "custom"}

\* the context after its constructor, with a configuration of cfgs loaded,
\* on project tree tree
Constructor(cfgs, tree) ==
    /\ config \in cfgs
    /\ plugins = Constructed.plugins
    /\ actionHandlers = Constructed.actionHandlers
    /\ environment = << >>
    /\ namespace = << >>
    /\ modules = Undefined
    /\ services = Undefined
    /\ fs = tree
    /\ calls = << >>
    /\ scanCount = 0
    /\ result = NoResult
    /\ lastSet = << >>

\* --- the registry and the resolution of handlers
InitRegistry == Constructor(ProjectConfigs, << >>)

NextRegistry ==
    \/ \E plugin \in ExternalPlugins : RegisterPlugin(plugin)
    \/ \E sel \in {<<"p">>, <<"t", ".", "p">>, <<"t", "p">>} :
          SetEnvironment(sel)
    \/ \E type \in PluginActionNames, moduleType \in ModuleTypes :
          GetActionHandler(type, moduleType)
    \/ \E type \in PluginActionNames, moduleType \in ModuleTypes :
          GetEnvActionHandler(type, moduleType)

SpecRegistry == InitRegistry /\ [][NextRegistry]_vars

\* --- the active environment
InitEnvironment == Constructor(ProjectConfigs, << >>)

NextEnvironment ==
    \/ \E sel \in Selectors(MaxSelectorLen) : SetEnvironment(sel)
    \/ GetEnvironment

SpecEnvironment == InitEnvironment /\ [][NextEnvironment]_vars

\* --- discovery
InitDiscovery ==
    \E tree \in ProjectTrees :
        Constructor({CHOOSE cfg \in ProjectConfigs : TRUE}, tree)

DiscoveryPlugins ==
    { Plugin("ext-a", {"custom"}, {"parseModule"}) }

NextDiscovery ==
    \/ \E op \in {"getModules", "getServices"} : Call(op)
    \/ \E c \in 1..Len(calls) : ScanStep(c)
    \/ \E c \in 1..Len(calls) : Commit(c)
    \/ \E c \in 1..Len(calls) : ServicesReturn(c)
    \/ \E plugin \in DiscoveryPlugins :
          ~PluginDeclared(plugins, plugin.name) /\ RegisterPlugin(plugin)

SpecDiscovery == InitDiscovery /\ [][NextDiscovery]_vars

-----------------------------------------------------------------------------
(* Properties of the registry and of resolution (SpecRegistry) *)

\* the places, in registration order, of the plugins that support the
\* module type (every plugin when none is asked for) and define the action
Eligible(type, moduleType) ==
    {i \in 1..Len(plugins) :
        /\ moduleType = "" \/ moduleType \in plugins[i].supportedModuleTypes
        /\ type \in plugins[i].actions}

\* the same, among the plugins named by a provider type of environment env
EligibleIn(env, type, moduleType) ==
    {i \in Eligible(type, moduleType) :
        \E slot \in DOMAIN config.environments[env].providers :
            config.environments[env].providers[slot].type = plugins[i].name}

Least(S) == CHOOSE i \in S : \A j \in S : i <= j

BoundHandlerOf(i, type) == [plugin |-> plugins[i].name, action |-> type]

\* C1: getActionHandler(type, moduleType) returns the bound handler of the
\* first registered plugin that supports moduleType (any plugin when no
\* moduleType is given) and defines the action; it throws ParameterError
\* with the requested action and module type exactly when there is none.
C1_GlobalResolution ==
    result.op = "getActionHandler" =>
        LET type == result.arg[1]
            moduleType == result.arg[2]
        IN  IF Eligible(type, moduleType) = {}
            THEN /\ result.err = "ParameterError"
                 /\ result.detail = [requestedHandlerType |-> type,
                                     requestedModuleType |-> moduleType]
            ELSE /\ result.err = ""
                 /\ result.val =
                      BoundHandlerOf(Least(Eligible(type, moduleType)), type)

\* C1 witness: a module type is asked for, the plugin registered last wins,
\* and an earlier plugin that supports the type was passed over
C1_Witness ==
    /\ result.op = "getActionHandler"
    /\ result.err = ""
    /\ result.arg[2] = "custom"
    /\ Len(plugins) = Len(BuiltinPlugins) + 2
    /\ result.val.plugin = plugins[Len(plugins)].name
    /\ "custom" \in plugins[Len(plugins) - 1].supportedModuleTypes

Registered(ps, name) == name \in {ps[i].name : i \in 1..Len(ps)}

\* C3: a registerPlugin call with a name that is registered already throws
\* PluginError and changes neither the plugins nor the handlers; with a new
\* name it succeeds, the plugin is last in the plugin list, and each action
\* it defines maps its name to a handler bound to it.
C3_Registration ==
    [][(result'.op = "registerPlugin" /\ result'.err # "ValidationError") =>
        LET p == result'.arg
        IN  IF Registered(plugins, p.name)
            THEN /\ result'.err = "PluginError"
                 /\ plugins' = plugins
                 /\ actionHandlers' = actionHandlers
            ELSE /\ result'.err = ""
                 /\ plugins' = Append(plugins, p)
                 /\ \A type \in PluginActionNames :
                       IF type \in p.actions
                       THEN /\ DOMAIN actionHandlers'[type] =
                                  (DOMAIN actionHandlers[type]) \cup {p.name}
                            /\ actionHandlers'[type][p.name] =
                                  [plugin |-> p.name, action |-> type]
                            /\ \A n \in DOMAIN actionHandlers[type] :
                                  actionHandlers'[type][n] =
                                      actionHandlers[type][n]
                       ELSE actionHandlers'[type] = actionHandlers[type]
      ]_vars

\* C3 witness: an external plugin was registered, and a second registration
\* under its name has just been refused
C3_Witness ==
    /\ result.op = "registerPlugin"
    /\ result.err = "PluginError"
    /\ result.arg.name \notin BuiltinNames
    /\ Len(plugins) = Len(BuiltinPlugins) + 2

-----------------------------------------------------------------------------
(* Properties of the active environment (SpecEnvironment) *)

HasDot(s) == \E i \in 1..Len(s) : s[i] = "."
FirstDot(s) == CHOOSE i \in 1..Len(s) : s[i] = "." /\ \A j \in 1..(i - 1) : s[j] # "."
BeforeFirstDot(s) == IF HasDot(s) THEN SubSeq(s, 1, FirstDot(s) - 1) ELSE s
AfterFirstDot(s) ==
    IF HasDot(s) THEN SubSeq(s, FirstDot(s) + 1, Len(s)) ELSE << >>

\* C9: getEnvironment throws PluginError exactly when no setEnvironment has
\* succeeded; otherwise it returns the name and namespace the latest
\* successful setEnvironment returned, with the configuration block of that
\* name.  The active environment is always the one of the latest successful
\* setEnvironment, so a failed setEnvironment leaves it as it was.
C9_ActiveEnvironment ==
    /\ IF lastSet = << >>
       THEN environment = << >> /\ namespace = << >>
       ELSE environment = lastSet[1].name /\ namespace = lastSet[1].namespace
    /\ result.op = "getEnvironment" =>
          IF lastSet = << >>
          THEN result.err = "PluginError"
          ELSE /\ result.err = ""
               /\ result.val =
                    [name |-> lastSet[1].name,
                     namespace |-> lastSet[1].namespace,
                     config |-> config.environments[lastSet[1].name]]

\* C9 witness: a setEnvironment has just failed while an environment with a
\* namespace of its own was active
C9_Witness ==
    /\ result.op = "setEnvironment"
    /\ result.err = "ParameterError"
    /\ lastSet # << >>
    /\ namespace # DEFAULT_NAMESPACE

\* C10: setEnvironment(selector) takes the text before the first "." as the
\* name and the text after it as the namespace, the default namespace when
\* that text is empty; it returns the pair when the name is a key of
\* config.environments and throws ParameterError otherwise.
C10_Selector ==
    result.op = "setEnvironment" =>
        LET sel == result.arg
            name == BeforeFirstDot(sel)
            ns == IF AfterFirstDot(sel) = << >>
                  THEN DEFAULT_NAMESPACE ELSE AfterFirstDot(sel)
        IN  IF name \in DOMAIN config.environments
            THEN /\ result.err = ""
                 /\ result.val = [name |-> name, namespace |-> ns]
            ELSE result.err = "ParameterError"

\* C10 witness: a selector with a namespace of two parts was accepted
C10_Witness ==
    /\ result.op = "setEnvironment"
    /\ result.err = ""
    /\ HasDot(result.val.namespace)

-----------------------------------------------------------------------------
(* Properties of discovery (SpecDiscovery) *)

\* the places of the tree that hold a module declaration the scan visits
Declared ==
    {i \in 1..Len(fs) :
        /\ fs[i].path.parts[Len(fs[i].path.parts)] = "garden.yml"
        /\ fs[i].path.parts[2] # "node_modules"}

ServiceNamesAt(i) ==
    {fs[i].decl.services[k].name : k \in 1..Len(fs[i].decl.services)}

\* a module index / a service index that holds the whole tree
WholeModuleIndex(obj) ==
    /\ obj.kind = "index"
    /\ DOMAIN obj.map = {fs[i].decl.name : i \in Declared}
WholeServiceIndex(obj) ==
    /\ obj.kind = "index"
    /\ DOMAIN obj.map = UNION {ServiceNamesAt(i) : i \in Declared}

\* C4: over all getModules and getServices calls on one context, at most
\* one directory scan is started.
C4_ScanAtMostOnce == scanCount <= 1

\* C5: when the second call on the context is a getModules() issued after
\* the first, also a getModules(), has returned, it starts no scan and
\* returns the very index object the first call returned; the context has
\* scanned once.
C5_SecondCallCached ==
    (/\ Len(calls) >= 2
     /\ calls[1].op = "getModules" /\ calls[2].op = "getModules"
     /\ 1 \in calls[2].after
     /\ ~calls[1].names.given /\ ~calls[2].names.given) =>
        /\ calls[2].pc = "done"
        /\ ~calls[2].scanned
        /\ calls[2].ret.kind = "index"
        /\ calls[2].ret = calls[1].ret
        /\ scanCount = 1

\* C5 witness: the second getModules() has returned an index with entries
C5_Witness ==
    /\ Len(calls) >= 2
    /\ calls[1].op = "getModules" /\ calls[2].op = "getModules"
    /\ 1 \in calls[2].after
    /\ ~calls[1].names.given /\ ~calls[2].names.given
    /\ calls[2].pc = "done"
    /\ Cardinality(DOMAIN calls[2].ret.map) = 2

\* C6: a step in which a pass fails leaves this.modules and this.services
\* as they are; both stay unset until some pass has run to its end; and the
\* cache, like every index a call returns, holds the whole tree, never a
\* part of it.
C6_FailedPassCommitsNothing ==
    /\ [][\A c \in 1..Len(calls) :
            (calls[c].pc = "scan" /\ calls'[c].pc = "failed") =>
                (modules' = modules /\ services' = services)]_vars
    /\ [](/\ (\A c \in 1..Len(calls) : calls[c].pc \in {"scan", "failed"}) =>
                (modules = Undefined /\ services = Undefined)
          /\ modules # Undefined => WholeModuleIndex(modules)
          /\ services # Undefined => WholeServiceIndex(services)
          /\ \A c \in 1..Len(calls) :
                (calls[c].pc = "done" /\ ~calls[c].names.given) =>
                    IF calls[c].op = "getModules"
                    THEN WholeModuleIndex(calls[c].ret)
                    ELSE WholeServiceIndex(calls[c].ret))

\* C6 witness: a pass has failed after it had indexed a module, and the
\* cache is still unset
C6_Witness ==
    \E c \in 1..Len(calls) :
        /\ calls[c].pc = "failed"
        /\ calls[c].modules # << >>
        /\ modules = Undefined /\ services = Undefined

\* C7: a pass that meets a module name it has indexed already fails with
\* ConfigurationError; pathA and pathB of the error are the paths of the two
\* declarations and both are relative to the project root; a committed
\* module index holds every module name of the tree once.
C7_DuplicateModulePaths ==
    /\ \A c \in 1..Len(calls) :
          (calls[c].pc = "failed" /\ "pathA" \in DOMAIN calls[c].detail) =>
              /\ calls[c].err = "ConfigurationError"
              /\ ~calls[c].detail.pathA.abs
              /\ ~calls[c].detail.pathB.abs
              /\ \E i, j \in Declared :
                    /\ i < j
                    /\ fs[i].decl.name = fs[j].decl.name
                    /\ calls[c].detail.pathA.parts[1] = fs[i].path.parts[2]
                    /\ calls[c].detail.pathB.parts[1] = fs[j].path.parts[2]
    /\ modules # Undefined =>
          \A name \in DOMAIN modules.map :
              Cardinality({i \in Declared : fs[i].decl.name = name}) = 1

\* C8: a pass that meets a service name it has indexed already fails with
\* ConfigurationError naming the module that declared the service first and
\* the module that declares it again; in a committed service index every
\* service is declared by exactly one module of the tree, its owner.
C8_ServiceOwners ==
    /\ \A c \in 1..Len(calls) :
          (calls[c].pc = "failed" /\ "serviceName" \in DOMAIN calls[c].detail) =>
              /\ calls[c].err = "ConfigurationError"
              /\ \E i, j \in Declared :
                    /\ i < j
                    /\ calls[c].detail.serviceName
                         \in ServiceNamesAt(i) \cap ServiceNamesAt(j)
                    /\ calls[c].detail.moduleA = fs[i].decl.name
                    /\ calls[c].detail.moduleB = fs[j].decl.name
    /\ services # Undefined =>
          \A s \in DOMAIN services.map :
              /\ Cardinality({i \in Declared : s \in ServiceNamesAt(i)}) = 1
              /\ \E i \in Declared :
                    /\ s \in ServiceNamesAt(i)
                    /\ services.map[s].module.name = fs[i].decl.name

\* C8 witness: a pass has failed on a service that two modules declare
C8_Witness ==
    \E c \in 1..Len(calls) :
        /\ calls[c].pc = "failed"
        /\ "serviceName" \in DOMAIN calls[c].detail
        /\ calls[c].detail.moduleA # calls[c].detail.moduleB

-----------------------------------------------------------------------------
(* Further properties of the registry and of resolution (SpecRegistry) *)

\* the names of the registered plugins that define the action
Implementers(type) ==
    {plugins[i].name : i \in {j \in 1..Len(plugins) : type \in plugins[j].actions}}

\* C11: for every action and every plugin name, the name is a key of the
\* handler map of the action exactly when the plugin registered under that
\* name defines the action, and the handler stored is the one bound to that
\* plugin; a resolution that returns, returns a handler that is stored.
C11_HandlerMapping ==
    /\ \A type \in PluginActionNames :
          /\ DOMAIN actionHandlers[type] = Implementers(type)
          /\ \A n \in DOMAIN actionHandlers[type] :
                actionHandlers[type][n] = [plugin |-> n, action |-> type]
    /\ (result.op \in {"getActionHandler", "getEnvActionHandler"}
            /\ result.err = "") =>
          /\ result.val # UndefinedHandler
          /\ result.val.plugin \in DOMAIN actionHandlers[result.arg[1]]
          /\ result.val = actionHandlers[result.arg[1]][result.val.plugin]

\* C11 witness: an external plugin defines parseModule and not buildModule,
\* a second one defines neither, and a resolution has returned the handler
\* of the first
C11_Witness ==
    /\ Len(plugins) = Len(BuiltinPlugins) + 2
    /\ \E i, j \in (Len(BuiltinPlugins) + 1)..Len(plugins) :
          /\ plugins[i].actions = {"parseModule"}
          /\ plugins[j].actions = {}
          /\ plugins[j].name \notin DOMAIN actionHandlers["parseModule"]
          /\ plugins[i].name \notin DOMAIN actionHandlers["buildModule"]
          /\ result.op = "getActionHandler"
          /\ result.err = ""
          /\ result.val.plugin = plugins[i].name

\* C13: getEnvActionHandler called while no environment is set throws the
\* PluginError of getEnvironment; it throws no ParameterError and returns
\* no handler, whatever is registered and whatever is asked for.
C13_EnvironmentNotSet ==
    (result.op = "getEnvActionHandler" /\ environment = << >>) =>
        /\ result.err = "PluginError"
        /\ result.val = UndefinedHandler
        /\ result.detail = << >>

\* C13 witness: no environment is set, an external plugin that supports the
\* module type and defines the action is registered, and the call has failed
C13_Witness ==
    /\ result.op = "getEnvActionHandler"
    /\ environment = << >>
    /\ result.err = "PluginError"
    /\ result.arg[2] = "custom"
    /\ \E i \in (Len(BuiltinPlugins) + 1)..Len(plugins) :
          /\ result.arg[1] \in plugins[i].actions
          /\ result.arg[2] \in plugins[i].supportedModuleTypes

\* the places of the built-in plugins in the plugin list
BuiltinPlaces == 1..Len(BuiltinPlugins)

\* C16: the plugin list starts with the built-in plugins in the order of
\* the builtinPlugins array, and every other plugin comes after them; so a
\* getActionHandler call for which some built-in plugin supports the module
\* type (or none is asked for) and defines the action returns the handler
\* of a built-in plugin.
C16_BuiltinsFirst ==
    /\ Len(plugins) >= Len(BuiltinPlugins)
    /\ SubSeq(plugins, 1, Len(BuiltinPlugins)) = BuiltinPlugins
    /\ <<plugins[1].name, plugins[2].name, plugins[3].name, plugins[4].name>>
          = <<"generic", "container", "generic-function", "npm-package">>
    /\ \A i \in 1..Len(plugins) :
          i \notin BuiltinPlaces => plugins[i].name \notin BuiltinNames
    /\ (result.op = "getActionHandler"
            /\ Eligible(result.arg[1], result.arg[2]) \cap BuiltinPlaces # {}) =>
          /\ result.err = ""
          /\ result.val.plugin \in BuiltinNames
          /\ result.val.plugin =
               plugins[Least(Eligible(result.arg[1], result.arg[2])
                                \cap BuiltinPlaces)].name

\* C16 witness: an external plugin supports the container type and defines
\* parseModule, and getActionHandler("parseModule", "container") has
\* returned the handler of the built-in container plugin
C16_Witness ==
    /\ result.op = "getActionHandler"
    /\ result.arg = <<"parseModule", "container">>
    /\ result.err = ""
    /\ result.val.plugin = "container"
    /\ \E i \in 1..Len(plugins) :
          /\ i \notin BuiltinPlaces
          /\ "container" \in plugins[i].supportedModuleTypes
          /\ "parseModule" \in plugins[i].actions

\* C17: with an environment active, the built-in plugins are among the
\* plugins of the environment whether or not a provider names them: a
\* getEnvActionHandler call for which some built-in plugin supports the
\* module type (or none is asked for) and defines the action finds a
\* handler, and it is the handler of a plugin that is a built-in or is
\* named by a provider of the environment.
C17_BuiltinsInEnvironment ==
    (/\ result.op = "getEnvActionHandler"
     /\ environment # << >>
     /\ Eligible(result.arg[1], result.arg[2]) \cap BuiltinPlaces # {}) =>
        /\ result.err = ""
        /\ \/ result.val.plugin \in BuiltinNames
           \/ result.val.plugin \in
                {config.environments[environment].providers[slot].type :
                    slot \in DOMAIN config.environments[environment].providers}

\* a garden.yml of directory "a" that holds declaration d, and the
\* configuration loaded from it
SampleItem(d) == Entry(<<"proj", "a", MODULE_CONFIG_FILENAME>>, d)
SampleConfig(d) ==
    [name |-> d.name, type |-> d.type, services |-> d.services,
     path |-> ParsePath(SampleItem(d).path).dir]

\* C18: getActionHandler does not read the active environment: a step that
\* sets the first environment or switches to another leaves the outcome of
\* getActionHandler the same for every action and module type (the same
\* handler or the same ParameterError), and with it the module a discovery
\* pass parses from a declaration.
C18_GlobalIgnoresEnvironment ==
    [][(environment' # environment /\ plugins' = plugins) =>
          /\ \A type \in PluginActionNames, moduleType \in ModuleTypes :
                GetActionHandlerOutcome(type, moduleType)' =
                    GetActionHandlerOutcome(type, moduleType)
          /\ \A d \in Declarations :
                IndexModule(<< >>, << >>, SampleItem(d), SampleConfig(d))' =
                    IndexModule(<< >>, << >>, SampleItem(d), SampleConfig(d))
      ]_vars

\* C18 witness: with an environment active, getActionHandler has returned
\* the handler of a plugin that no provider of the environment names, and
\* an external plugin that a provider names defines the action as well
C18_Witness ==
    /\ environment # << >>
    /\ result.op = "getActionHandler"
    /\ result.err = ""
    /\ \A slot \in DOMAIN config.environments[environment].providers :
          config.environments[environment].providers[slot].type
              # result.val.plugin
    /\ \E i \in 1..Len(plugins), 
          slot \in DOMAIN config.environments[environment].providers :
          /\ i \notin BuiltinPlaces
          /\ config.environments[environment].providers[slot].type
                = plugins[i].name
          /\ result.arg[1] \in plugins[i].actions

\* C19: a registerPlugin call with a name that is no identifier throws a
\* PluginError, and the plugin is neither in the plugin list nor a key of
\* any handler map afterwards.
C19_InvalidIdentifier ==
    (result.op = "registerPlugin" /\ ~ValidIdentifier(result.arg.name)) =>
        /\ result.err = "PluginError"
        /\ ~Registered(plugins, result.arg.name)
        /\ \A type \in PluginActionNames :
              result.arg.name \notin DOMAIN actionHandlers[type]

-----------------------------------------------------------------------------
(* Further properties of discovery (SpecDiscovery) *)

\* the entries of an index whose keys are among keys
Subset(obj, keys) == [k \in {n \in keys : n \in DOMAIN obj.map} |-> obj.map[k]]

\* C12: a getModules(names) call that has returned holds exactly the entries
\* of the cached module index whose keys are in names, in an object of its
\* own; a getServices(names) call holds those of the cached service index;
\* a name that is no key is left out and the call does not fail for it.
C12_NamedSubset ==
    \A c \in 1..Len(calls) :
        (calls[c].pc = "done" /\ calls[c].names.given) =>
            /\ calls[c].err = ""
            /\ calls[c].ret.kind = "picked"
            /\ calls[c].ret.map =
                 IF calls[c].op = "getModules"
                 THEN Subset(modules, calls[c].names.keys)
                 ELSE Subset(services, calls[c].names.keys)

\* C12 witness: getModules(["web", "api", "nope"]) has returned web alone of
\* two modules, and getServices of the same names api alone of two services
C12_Witness ==
    \E c, d \in 1..Len(calls) :
        /\ calls[c].op = "getModules" /\ calls[d].op = "getServices"
        /\ calls[c].pc = "done" /\ calls[d].pc = "done"
        /\ calls[c].names = Names({"web", "api", "nope"})
        /\ calls[d].names = Names({"web", "api", "nope"})
        /\ DOMAIN calls[c].ret.map = {"web"}
        /\ DOMAIN calls[d].ret.map = {"api"}
        /\ Cardinality(DOMAIN modules.map) = 2
        /\ Cardinality(DOMAIN services.map) = 2

\* C14: no two discovery passes run at the same time: while one call is
\* suspended in its scan, no other call is in a scan of its own.
C14_NoConcurrentPasses ==
    \A c, d \in 1..Len(calls) :
        (c # d /\ calls[c].pc = "scan") => calls[d].pc # "scan"

\* C15: once a pass has stored the module index and the service index, no
\* step of any call stores another object in this.modules or this.services
\* or changes an entry of them.
C15_IndexesNeverReplaced ==
    [][modules # Undefined =>
          (modules' = modules /\ services' = services)]_vars

\* C20: this.modules and this.services are both unset or both set; when
\* set they were stored by the same pass, and the module of every entry of
\* the service index is the module the module index holds under its name.
C20_IndexesOfOnePass ==
    /\ CacheUnset(modules) <=> CacheUnset(services)
    /\ modules.pass = services.pass
    /\ \A s \in DOMAIN services.map :
          /\ services.map[s].module.name \in DOMAIN modules.map
          /\ modules.map[services.map[s].module.name] = services.map[s].module

\* C20 witness: two calls have scanned at the same time; the first has
\* stored its indexes, with two services of two modules, while the second
\* is still in its pass and has indexed one module
C20_Witness ==
    /\ Len(calls) >= 2
    /\ calls[1].scanned /\ calls[2].scanned
    /\ calls[1].pc \in {"done", "resume"}
    /\ calls[2].pc = "scan"
    /\ Cardinality(DOMAIN calls[2].modules) = 1
    /\ modules.pass = 1
    /\ Cardinality(DOMAIN modules.map) = 2
    /\ Cardinality(DOMAIN services.map) = 2

=============================================================================
